---- MODULE Spec2Model ----
(***************************************************************************)
(* Universum: the VCS role wrappers of universum/modules/vcs/vcs.py        *)
(* (PollVcs, SubmitVcs, MainVcs built by create_vcs) and the MainVcs       *)
(* lifecycle (prepare_repository, clean_sources_silently,                  *)
(* revert_repository, is_latest_review_version, finalize); and the         *)
(* uncrustify analyzer of universum/analyzers/uncrustify.py.               *)
(*                                                                         *)
(* Four specifications share the variables:                                *)
(*   Spec      the module is imported (create_vcs runs three times) and    *)
(*             the three wrappers are constructed from one settings object *)
(*   SpecMain  the lifecycle methods applied to a MainVcs whose attributes *)
(*             hold what Vcs.__init__ (line 100) and MainVcs.__init__      *)
(*             (lines 128-132) assign                                      *)
(*   SpecUncrustify  universum_uncrustify run once: the analyzer is built  *)
(*             from its arguments, execute() is called, the process exits  *)
(*   SpecIssues  get_file_issues applied to a source file and a fixed file *)
(*             of up to MaxLines lines each                                *)
(*                                                                         *)
(* Under Spec no construction with a set type succeeds: line 100 reads the *)
(* class attribute driver_factory as a bare name (NameError) and the       *)
(* handler of line 101 turns that into a TypeError.  SpecMain therefore    *)
(* takes the constructed receiver as given and describes the methods.      *)
(***************************************************************************)
EXTENDS Integers, Sequences, FiniteSets, TLC

\* number of lifecycle calls made on one MainVcs
MaxOps == 2

\* number of lines of the longest file get_file_issues is given
MaxLines == 3

----------------------------------------------------------------------------
(* Values *)

\* settings.type has no attribute "type" / holds None
ABSENT == "<absent>"
NONE == "<None>"

Roles == {"poll", "submit", "main"}

\* the values settings.type is drawn from: unset, the --vcs-type choices, and
\* two values outside them
TypeValues == {ABSENT, NONE, "", "none", "p4", "git", "gerrit", "github", "svn", "hg"}

\* create_vcs() is called without argument for MainVcs (line 115)
ClassTypeOf(role) == IF role = "main" THEN NONE ELSE role

----------------------------------------------------------------------------
(* Exceptions: the classes the code raises or catches, with their bases *)

ExceptionBase ==
    [ FileNotFoundError       |-> "OSError",
      PermissionError         |-> "OSError",
      NotADirectoryError      |-> "OSError",
      OSError                 |-> "Exception",
      KeyError                |-> "LookupError",
      LookupError             |-> "Exception",
      AttributeError          |-> "Exception",
      NameError               |-> "Exception",
      TypeError               |-> "Exception",
      NotImplementedError     |-> "RuntimeError",
      RuntimeError            |-> "Exception",
      IncorrectParameterError |-> "Exception",
      NotSupported            |-> "Exception",
      DriverError             |-> "Exception",
      ErrorReturnCode         |-> "Exception",
      CommandNotFound         |-> "Exception",
      SystemExit              |-> "BaseException",
      Exception               |-> "BaseException" ]

RECURSIVE IsSubclass(_, _)
IsSubclass(cls, base) ==
    IF cls = base THEN TRUE
    ELSE IF cls \in DOMAIN ExceptionBase THEN IsSubclass(ExceptionBase[cls], base)
    ELSE FALSE

\* no exception in flight
NoError == ""

----------------------------------------------------------------------------
(* create_vcs: the per-role tables *)

vcs_types == <<"none", "p4", "git", "gerrit", "github">>

\* variant: the poll table gives gerrit a driver of its own
driver_factory_class_GerritPoll(class_type) ==
    IF class_type = "submit" THEN
        [ none   |-> "base_vcs.BaseSubmitVcs",
          p4     |-> "perforce_vcs.PerforceSubmitVcs",
          git    |-> "git_vcs.GitSubmitVcs",
          gerrit |-> "gerrit_vcs.GerritSubmitVcs",
          github |-> "git_vcs.GitSubmitVcs" ]
    ELSE IF class_type = "poll" THEN
        [ none   |-> "base_vcs.BasePollVcs",
          p4     |-> "perforce_vcs.PerforcePollVcs",
          git    |-> "git_vcs.GitPollVcs",
          gerrit |-> "gerrit_vcs.GerritPollVcs",
          github |-> "git_vcs.GitPollVcs" ]
    ELSE
        [ none   |-> "local_vcs.LocalMainVcs",
          p4     |-> "perforce_vcs.PerforceMainVcs",
          git    |-> "git_vcs.GitMainVcs",
          gerrit |-> "gerrit_vcs.GerritMainVcs",
          github |-> "github_vcs.GithubMainVcs" ]

driver_factory_class(class_type) ==
    IF class_type = "submit" THEN
        [ none   |-> "base_vcs.BaseSubmitVcs",
          p4     |-> "perforce_vcs.PerforceSubmitVcs",
          git    |-> "git_vcs.GitSubmitVcs",
          gerrit |-> "gerrit_vcs.GerritSubmitVcs",
          github |-> "git_vcs.GitSubmitVcs" ]
    ELSE IF class_type = "poll" THEN
        [ none   |-> "base_vcs.BasePollVcs",
          p4     |-> "perforce_vcs.PerforcePollVcs",
          git    |-> "git_vcs.GitPollVcs",
          gerrit |-> "git_vcs.GitPollVcs",
          github |-> "git_vcs.GitPollVcs" ]
    ELSE
        [ none   |-> "local_vcs.LocalMainVcs",
          p4     |-> "perforce_vcs.PerforceMainVcs",
          git    |-> "git_vcs.GitMainVcs",
          gerrit |-> "gerrit_vcs.GerritMainVcs",
          github |-> "github_vcs.GithubMainVcs" ]

\* Dependency(cls): a handle that builds an instance of cls when called
Dependency(cls) == [ cls |-> cls ]

\* the class attribute Vcs.driver_factory built in the class body
driver_factory(class_type) ==
    [ vcs_type \in DOMAIN driver_factory_class(class_type) |->
        Dependency(driver_factory_class(class_type)[vcs_type]) ]

\* no class created yet for a role
NoTable == [ unset |-> Dependency("") ]

----------------------------------------------------------------------------
(* Name resolution inside Vcs.__init__.  A bare name in a method is looked   *)
(* up in the method's locals, then in the enclosing function's locals, then *)
(* in the module's globals and the builtins; the names bound in the class   *)
(* body are attributes, reached through self only.                          *)

InitLocals == {"self", "args", "kwargs", "text"}
CreateVcsLocals == {"class_type", "driver_factory_class", "vcs_types", "Vcs"}
ClassBodyNames == {"driver_factory", "define_arguments", "__init__", "finalize"}
ModuleGlobals ==
    {"inspect", "json", "shutil", "sh", "cast", "Dict", "List", "Type", "Union",
     "git_vcs", "github_vcs", "gerrit_vcs", "perforce_vcs", "local_vcs", "base_vcs",
     "artifact_collector", "ApiSupport", "ProjectDirectory", "needs_structure",
     "utils", "Dependency", "IncorrectParameterError", "make_block",
     "create_vcs", "PollVcs", "SubmitVcs", "MainVcs"}
Builtins == {"getattr", "super", "AttributeError", "KeyError", "NotImplementedError"}

ResolveName(name) ==
    IF name \in InitLocals \cup CreateVcsLocals \cup ModuleGlobals \cup Builtins
    THEN "found" ELSE "NameError"

----------------------------------------------------------------------------
(* Vcs.__init__ *)

\* getattr(self.settings, "type", None)
getattr_type(settings) == IF settings.type = ABSENT THEN NONE ELSE settings.type

\* variant: only None counts as unset (an `is None` test)
Truthy_NoneOnly(value) == value # NONE

\* Python truth value of a str-or-None
Truthy(value) == value \notin {NONE, ""}

\* sep.join(names), as the sequence of its pieces
RECURSIVE Join(_, _)
Join(names, sep) ==
    IF Len(names) = 0 THEN <<>>
    ELSE IF Len(names) = 1 THEN <<names[1]>>
    ELSE <<names[1], sep>> \o Join(Tail(names), sep)

\* line 101: the handler expression is AttributeError | KeyError, the
\* bitwise-or of two classes, not the tuple (AttributeError, KeyError)
HandlerExpr == [ form |-> "union", classes |-> {"AttributeError", "KeyError"} ]

\* An except clause is evaluated when the try body raised.  Only a class or a
\* tuple of classes can be matched; the | of two classes either is a TypeError
\* itself or gives a union object, which matching rejects with a TypeError.
ExceptMatch(handler, exc) ==
    IF handler.form \in {"class", "tuple"}
    THEN IF \E c \in handler.classes : IsSubclass(exc, c) THEN "caught" ELSE "passed"
    ELSE "TypeError"

\* line 100: driver_factory[self.settings.type]() with driver_factory a bare name
\* (factory: the class attribute Vcs.driver_factory of the wrapper's class)
InstantiateDriver(factory, type) ==
    IF ResolveName("driver_factory") # "found"
    THEN [ raised |-> "NameError", cls |-> "" ]
    ELSE IF type \notin DOMAIN factory
    THEN [ raised |-> "KeyError", cls |-> "" ]
    ELSE [ raised |-> NoError, cls |-> factory[type].cls ]

\* the result of a constructor: the exception raised (if any), the type
\* names its message enumerates, and the classes instantiated on the way
Vcs__init__(factory, settings) ==
    IF ~Truthy(getattr_type(settings))
    THEN [ raised |-> "IncorrectParameterError",
           message |-> Join(vcs_types, ", "),
           instantiated |-> <<>> ]
    ELSE LET made == InstantiateDriver(factory, settings.type)
             match == ExceptMatch(HandlerExpr, made.raised)
         IN  IF made.raised = NoError
             THEN [ raised |-> NoError, message |-> <<>>, instantiated |-> <<made.cls>> ]
             ELSE [ raised |-> IF match = "caught" THEN "NotImplementedError"
                               ELSE IF match = "passed" THEN made.raised
                               ELSE "TypeError",
                    message |-> <<>>,
                    instantiated |-> <<>> ]

----------------------------------------------------------------------------
(* MainVcs.__init__ *)

\* lines 126-132; capable: driver.code_review() returns a handle (else raises)
MainVcs__init__(factory, settings, capable) ==
    LET base == Vcs__init__(factory, settings)
        made == base.instantiated \o <<"artifact_collector.ArtifactCollector", "ApiSupport">>
    IN  IF base.raised # NoError
        THEN [ raised |-> base.raised, message |-> base.message,
               instantiated |-> base.instantiated, code_review |-> FALSE ]
        ELSE IF settings.report_to_review /\ ~capable
        THEN [ raised |-> "NotSupported", message |-> <<>>,
               instantiated |-> made, code_review |-> FALSE ]
        ELSE [ raised |-> NoError, message |-> <<>>,
               instantiated |-> made, code_review |-> settings.report_to_review ]

----------------------------------------------------------------------------
(* Collaborators of MainVcs that live outside vcs.py *)

LF == "\n"

\* artifacts.create_text_file(name): a writable text handle
create_text_file(name) == [ name |-> name, closed |-> FALSE, content |-> <<>> ]
NoFile == [ name |-> "", closed |-> FALSE, content |-> <<>> ]

\* status_file.write(text), status_file.close()
write(file, text) == [ file EXCEPT !.content = @ \o text ]
close(file) == [ file EXCEPT !.closed = TRUE ]

\* utils.trim_and_convert_to_unicode: drops one trailing line break
trim_and_convert_to_unicode(text) ==
    IF Len(text) > 0 /\ text[Len(text)] = LF THEN SubSeq(text, 1, Len(text) - 1) ELSE text

\* json.dumps(file_diff, indent=4): a list of paths as JSON text
RECURSIVE json_items(_)
json_items(paths) ==
    IF Len(paths) = 0 THEN <<>>
    ELSE IF Len(paths) = 1 THEN <<"\"" \o paths[1] \o "\"">>
    ELSE <<"\"" \o paths[1] \o "\"", ",">> \o json_items(Tail(paths))
json_dumps(file_diff) == <<"[">> \o json_items(file_diff) \o <<"]">>

\* @make_block(name): runs the method inside a named report block; the
\* method's result or exception is the block's
make_block(block_name, result) == result

\* driver.finalize(): releases the backend resources, once
driver_finalize(drv) ==
    [ drv EXCEPT !.finalize_calls = @ + 1,
                 !.releases = IF drv.released THEN @ ELSE @ + 1,
                 !.released = TRUE ]

\* what the environment hands to one call
StatusTexts == { <<"commit 1f3a">>, <<"commit 1f3a", LF>> }
Listings == { <<"total 4", LF, "readme.txt", LF>> }
FileDiffs == { <<>>, <<"readme.txt">> }
BackendErrors == {"DriverError", "OSError"}
FaultErrors(fault) ==
    IF fault = "none" THEN {NoError}
    ELSE IF fault = "sh.ls" THEN {"ErrorReturnCode"}
    ELSE IF fault = "artifacts.create_text_file" THEN {"OSError"}
    ELSE BackendErrors
PrepareFaults ==
    {"none", "artifacts.create_text_file", "driver.prepare_repository",
     "driver.get_repo_status", "sh.ls", "driver.calculate_file_diff",
     "api_support.add_file_diff"}
NoPayload == <<>>

\* the runs of prepare_repository: which call fails and with what, and what
\* the calls that are reached return
StatusRead(fault) ==
    fault \notin {"artifacts.create_text_file", "driver.prepare_repository",
                  "driver.get_repo_status"}
ListingRead(fault) == StatusRead(fault) /\ fault # "sh.ls"
DiffRead(fault) == fault \in {"none", "api_support.add_file_diff"}
PrepareRuns ==
    { run \in [ fault : PrepareFaults, exc : BackendErrors \cup {NoError, "ErrorReturnCode"},
                status : StatusTexts \cup {<<>>}, listing : Listings \cup {<<>>},
                file_diff : FileDiffs \cup {<<"unread">>} ] :
        /\ run.exc \in FaultErrors(run.fault)
        /\ IF StatusRead(run.fault) THEN run.status \in StatusTexts ELSE run.status = <<>>
        /\ IF ListingRead(run.fault) THEN run.listing \in Listings ELSE run.listing = <<>>
        /\ IF DiffRead(run.fault) THEN run.file_diff \in FileDiffs
                                  ELSE run.file_diff = <<"unread">> }

----------------------------------------------------------------------------
(* MainVcs methods.  Each gives the exception raised (if any), the value    *)
(* returned, the collaborator calls made, in order, and what it changed.    *)

\* variant: asks the review system whether or not reporting is enabled
is_latest_review_version_Always(report_to_review, latest) ==
    [ raised |-> NoError, value |-> latest,
      calls |-> <<"code_review.is_latest_version">> ]

\* lines 134-137 (latest: what code_review.is_latest_version() answers)
is_latest_review_version(report_to_review, latest) ==
    IF report_to_review
    THEN [ raised |-> NoError, value |-> latest,
           calls |-> <<"code_review.is_latest_version">> ]
    ELSE [ raised |-> NoError, value |-> TRUE, calls |-> <<>> ]

\* variant: a failure of driver.prepare_repository() is caught and the method
\* carries on
prepare_repository_Swallow(fault, exc, status, listing, file_diff) ==
    LET opened == create_text_file("REPOSITORY_STATE.txt")
        w1 == write(opened, status)
        w2 == write(w1, <<LF, "File list:", LF, LF>>)
        w3 == write(w2, trim_and_convert_to_unicode(listing) \o <<LF>>)
        k1 == <<"artifacts.create_text_file">>
        k2 == k1 \o <<"driver.prepare_repository">>
        k3 == k2 \o <<"driver.get_repo_status">>
        k4 == k3 \o <<"status_file.write", "status_file.write", "sh.ls">>
        k5 == k4 \o <<"status_file.write", "status_file.close">>
        k6 == k5 \o <<"driver.calculate_file_diff">>
        k7 == k6 \o <<"api_support.add_file_diff">>
        Out(e, f, k, prep, pay) ==
            [ raised |-> e, file |-> f, calls |-> k, prepared |-> prep, payload |-> pay ]
    IN  make_block("Preparing repository",
        CASE fault = "artifacts.create_text_file" -> Out(exc, NoFile, k1, FALSE, NoPayload)
          [] fault = "driver.prepare_repository"  ->
                Out(NoError, close(w3), k7, FALSE, json_dumps(<<>>))
          [] fault = "driver.get_repo_status"     -> Out(exc, opened, k3, TRUE, NoPayload)
          [] fault = "sh.ls"                      -> Out(exc, w2, k4, TRUE, NoPayload)
          [] fault = "driver.calculate_file_diff" -> Out(exc, close(w3), k6, TRUE, NoPayload)
          [] fault = "api_support.add_file_diff"  -> Out(exc, close(w3), k7, TRUE, NoPayload)
          [] OTHER -> Out(NoError, close(w3), k7, TRUE, json_dumps(file_diff)))

\* variant: the diff is computed while the status file is still open
prepare_repository_DiffBeforeClose(fault, exc, status, listing, file_diff) ==
    LET opened == create_text_file("REPOSITORY_STATE.txt")
        w1 == write(opened, status)
        w2 == write(w1, <<LF, "File list:", LF, LF>>)
        w3 == write(w2, trim_and_convert_to_unicode(listing) \o <<LF>>)
        k1 == <<"artifacts.create_text_file">>
        k2 == k1 \o <<"driver.prepare_repository">>
        k3 == k2 \o <<"driver.get_repo_status">>
        k4 == k3 \o <<"status_file.write", "status_file.write", "sh.ls">>
        k5 == k4 \o <<"status_file.write", "driver.calculate_file_diff">>
        k6 == k5 \o <<"status_file.close">>
        k7 == k6 \o <<"api_support.add_file_diff">>
        Out(e, f, k, prep, pay) ==
            [ raised |-> e, file |-> f, calls |-> k, prepared |-> prep, payload |-> pay ]
    IN  make_block("Preparing repository",
        CASE fault = "artifacts.create_text_file" -> Out(exc, NoFile, k1, FALSE, NoPayload)
          [] fault = "driver.prepare_repository"  -> Out(exc, opened, k2, FALSE, NoPayload)
          [] fault = "driver.get_repo_status"     -> Out(exc, opened, k3, TRUE, NoPayload)
          [] fault = "sh.ls"                      -> Out(exc, w2, k4, TRUE, NoPayload)
          [] fault = "driver.calculate_file_diff" -> Out(exc, w3, k5, TRUE, NoPayload)
          [] fault = "api_support.add_file_diff"  -> Out(exc, close(w3), k7, TRUE, NoPayload)
          [] OTHER -> Out(NoError, close(w3), k7, TRUE, json_dumps(file_diff)))

\* lines 139-152; fault: the call that fails in this run, raising exc
prepare_repository(fault, exc, status, listing, file_diff) ==
    LET opened == create_text_file("REPOSITORY_STATE.txt")
        w1 == write(opened, status)
        w2 == write(w1, <<LF, "File list:", LF, LF>>)
        w3 == write(w2, trim_and_convert_to_unicode(listing) \o <<LF>>)
        k1 == <<"artifacts.create_text_file">>
        k2 == k1 \o <<"driver.prepare_repository">>
        k3 == k2 \o <<"driver.get_repo_status">>
        k4 == k3 \o <<"status_file.write", "status_file.write", "sh.ls">>
        k5 == k4 \o <<"status_file.write", "status_file.close">>
        k6 == k5 \o <<"driver.calculate_file_diff">>
        k7 == k6 \o <<"api_support.add_file_diff">>
        Out(e, f, k, prep, pay) ==
            [ raised |-> e, file |-> f, calls |-> k, prepared |-> prep, payload |-> pay ]
    IN  make_block("Preparing repository",
        CASE fault = "artifacts.create_text_file" -> Out(exc, NoFile, k1, FALSE, NoPayload)
          [] fault = "driver.prepare_repository"  -> Out(exc, opened, k2, FALSE, NoPayload)
          [] fault = "driver.get_repo_status"     -> Out(exc, opened, k3, TRUE, NoPayload)
          [] fault = "sh.ls"                      -> Out(exc, w2, k4, TRUE, NoPayload)
          [] fault = "driver.calculate_file_diff" -> Out(exc, close(w3), k6, TRUE, NoPayload)
          [] fault = "api_support.add_file_diff"  -> Out(exc, close(w3), k7, TRUE, NoPayload)
          [] OTHER -> Out(NoError, close(w3), k7, TRUE, json_dumps(file_diff)))

\* shutil.rmtree(root): removes the tree, or raises an OSError
rmtree(root, err) ==
    IF root = "absent" THEN [ raised |-> "FileNotFoundError", root |-> root ]
    ELSE IF err = NoError THEN [ raised |-> NoError, root |-> "absent" ]
    ELSE [ raised |-> err, root |-> root ]
RmtreeErrors == {NoError, "PermissionError", "NotADirectoryError", "OSError"}

\* variant: only a missing directory is forgiven
clean_sources_silently_MissingOnly(root, err) ==
    LET removal == rmtree(root, err)
    IN  [ raised |-> IF removal.raised = "FileNotFoundError" THEN NoError ELSE removal.raised,
          root |-> removal.root,
          calls |-> <<"shutil.rmtree">> ]

\* lines 154-158
clean_sources_silently(root, err) ==
    LET removal == rmtree(root, err)
    IN  [ raised |-> IF removal.raised # NoError /\ IsSubclass(removal.raised, "OSError")
                     THEN NoError ELSE removal.raised,
          root |-> removal.root,
          calls |-> <<"shutil.rmtree">> ]

\* variant: a failure of the driver is caught and an empty diff returned
revert_repository_Swallow(fault, exc, file_diff) ==
    make_block("Revert repository",
        IF fault THEN [ raised |-> NoError, value |-> <<>>, reverted |-> FALSE,
                        calls |-> <<"driver.copy_cl_files_and_revert">> ]
        ELSE [ raised |-> NoError, value |-> file_diff, reverted |-> TRUE,
               calls |-> <<"driver.copy_cl_files_and_revert">> ])

\* variant: the diff is returned without the driver being asked to revert
revert_repository_NoCall(fault, exc, file_diff) ==
    make_block("Revert repository",
        [ raised |-> NoError, value |-> file_diff, reverted |-> FALSE, calls |-> <<>> ])

\* lines 160-163
revert_repository(fault, exc, file_diff) ==
    make_block("Revert repository",
        IF fault THEN [ raised |-> exc, value |-> <<>>, reverted |-> FALSE,
                        calls |-> <<"driver.copy_cl_files_and_revert">> ]
        ELSE [ raised |-> NoError, value |-> file_diff, reverted |-> TRUE,
               calls |-> <<"driver.copy_cl_files_and_revert">> ])

\* variant: finalize is skipped unless the repository was prepared
finalize_IfPrepared(drv) ==
    make_block("Finalizing",
        IF drv.prepared
        THEN [ raised |-> NoError, driver |-> driver_finalize(drv),
               calls |-> <<"driver.finalize">> ]
        ELSE [ raised |-> NoError, driver |-> drv, calls |-> <<>> ])

\* variant: finalize drops self.driver, so that a second call finds none
finalize_DropDriver(drv) ==
    make_block("Finalizing",
        IF drv.finalize_calls > 0
        THEN [ raised |-> "AttributeError", driver |-> drv, calls |-> <<>> ]
        ELSE [ raised |-> NoError, driver |-> driver_finalize(drv),
               calls |-> <<"driver.finalize">> ])

\* lines 104-106
finalize(drv) ==
    make_block("Finalizing",
        [ raised |-> NoError, driver |-> driver_finalize(drv),
          calls |-> <<"driver.finalize">> ])

----------------------------------------------------------------------------
(* universum/analyzers/uncrustify.py.  A path is the sequence of its        *)
(* components, a text file the sequence of its lines.                       *)

\* Body applied to value, with value computed once
Eval(value, Body(_)) == CHOOSE result \in { Body(v) : v \in {value} } : TRUE

\* os.getcwd()
getcwd == <<"work">>

\* the files of the run in the order os.walk yields them, and its directories
AllFiles ==
    << <<"work", "a.c">>, <<"work", "list.txt">>,
       <<"work", "src", "m.c">>, <<"work", "src", "n.py">> >>
Directories == { <<"work">>, <<"work", "src">> }

\* f.readlines() of a source file
SourceLines(path) ==
    CASE path = <<"a.c">>        -> <<"int x;", "x=1;">>
      [] path = <<"src", "m.c">> -> <<"f();", "x=1;", "g();">>
      [] OTHER                   -> <<"pass">>

\* f.readlines() of the file given to --file-list: one item a line
ListLines == << <<"src", LF>>, <<"a.c", LF>> >>

\* the part of a file name after its last dot
Ext(name) ==
    CASE name \in {"a.c", "m.c"} -> "c"
      [] name = "n.py"           -> "py"
      [] name = "list.txt"       -> "txt"
      [] OTHER                   -> ""

IsPrefix(dir, path) == Len(dir) < Len(path) /\ SubSeq(path, 1, Len(dir)) = dir
isfile(path) == \E i \in 1..Len(AllFiles) : AllFiles[i] = path
isdir(path) == path \in Directories
os_path_join(dir, item) == dir \o item
os_walk(dir) == SelectSeq(AllFiles, LAMBDA f : IsPrefix(dir, f))
\* os.path.relpath(path) for a path below the working directory
relpath(path) ==
    IF IsPrefix(getcwd, path) THEN SubSeq(path, Len(getcwd) + 1, Len(path)) ELSE path

\* lines 23-36; SystemExit is what sys.exit(2) raises
add_files_recursively(item_path) ==
    LET path == os_path_join(getcwd, item_path)
    IN  IF isfile(path) THEN [ raised |-> NoError, files |-> <<path>> ]
        ELSE IF isdir(path) THEN [ raised |-> NoError, files |-> os_walk(path) ]
        ELSE [ raised |-> "SystemExit", files |-> <<>> ]

\* the loops of lines 114-115 and 120-121: files.extend for every item, up to
\* the first one that raises
RECURSIVE extend_files(_, _)
extend_files(files, items) ==
    IF Len(items) = 0 THEN [ raised |-> NoError, files |-> files ]
    ELSE Eval(add_files_recursively(Head(items)), LAMBDA found :
            IF found.raised # NoError THEN [ raised |-> found.raised, files |-> files ]
            ELSE Eval(files \o found.files, LAMBDA extended :
                    extend_files(extended, Tail(items))))

\* str.strip() of a line: white space removed at both ends
Whitespace == {LF, " "}
RECURSIVE lstrip(_)
lstrip(line) ==
    IF Len(line) > 0 /\ Head(line) \in Whitespace THEN lstrip(Tail(line)) ELSE line
RECURSIVE rstrip(_)
rstrip(line) ==
    IF Len(line) > 0 /\ line[Len(line)] \in Whitespace
    THEN rstrip(SubSeq(line, 1, Len(line) - 1)) ELSE line
strip(line) == rstrip(lstrip(line))

\* lines 116-119: open(file_list) raises when there is no such file
RECURSIVE read_file_lists(_, _)
read_file_lists(file_lines, file_lists) ==
    IF Len(file_lists) = 0 THEN [ raised |-> NoError, lines |-> file_lines ]
    ELSE IF ~isfile(os_path_join(getcwd, Head(file_lists)))
    THEN [ raised |-> "FileNotFoundError", lines |-> file_lines ]
    ELSE read_file_lists(
            file_lines \o [ i \in 1..Len(ListLines) |-> strip(ListLines[i]) ],
            Tail(file_lists))

\* re.compile(pattern).match(file_name): the pattern is tried at the start of
\* the name, which at line 124 is an absolute path
regexp_match(pattern, file_name) ==
    CASE pattern = ".*\\.c$"   -> Ext(file_name[Len(file_name)]) = "c"
      [] pattern = "src/.*"    -> Len(file_name) > 1 /\ file_name[1] = "src"
      [] pattern = ".*/src/.*" ->
            \E i \in 1..(Len(file_name) - 1) : file_name[i] = "src"
      [] OTHER -> FALSE

\* lines 122-124
RECURSIVE filter_files(_, _)
filter_files(files, pattern_form) ==
    IF Len(pattern_form) = 0 THEN files
    ELSE filter_files(SelectSeq(files, LAMBDA f : regexp_match(Head(pattern_form), f)),
                      Tail(pattern_form))

\* a Python value that is an int or a list
IntValue(n) == [ type |-> "int", int |-> {n}, list |-> <<>> ]
ListValue(l) == [ type |-> "list", int |-> {}, list |-> l ]

\* lines 111-130; files: the list as line 125 leaves it
parse_files(settings) ==
    LET Raise(exc) == [ raised |-> exc, value |-> ListValue(<<>>), files |-> <<>> ]
        relative(filtered) == [ i \in 1..Len(filtered) |-> relpath(filtered[i]) ]
    IN  Eval(extend_files(<<>>, settings.file_names), LAMBDA named :
        IF named.raised # NoError THEN Raise(named.raised)
        ELSE Eval(read_file_lists(<<>>, settings.file_lists), LAMBDA lists :
        IF lists.raised # NoError THEN Raise(lists.raised)
        ELSE Eval(extend_files(named.files, lists.lines), LAMBDA listed :
        IF listed.raised # NoError THEN Raise(listed.raised)
        ELSE Eval(relative(filter_files(listed.files, settings.pattern_form)), LAMBDA files :
        IF Len(files) = 0
        THEN [ raised |-> NoError, value |-> IntValue(2), files |-> files ]
        ELSE [ raised |-> NoError, value |-> ListValue(files), files |-> files ]))))

\* what uncrustify writes for a source file under a configuration: "strict"
\* puts spaces around the assignment operator, "lenient" changes nothing
Restyle(style, line) == IF style = "strict" /\ line = "x=1;" THEN "x = 1;" ELSE line
FixedLines(style, src_lines) ==
    [ i \in 1..Len(src_lines) |-> Restyle(style, src_lines[i]) ]

\* difflib.SequenceMatcher(a, b).find_longest_match(alo, ahi, blo, bhi) with no
\* junk: the longest block a[i:i+k] == b[j:j+k], the one starting earliest in
\* a and then earliest in b; indices count from 0 as in the source
RECURSIVE match_size(_, _, _, _, _, _)
match_size(a, b, i, j, ahi, bhi) ==
    IF i < ahi /\ j < bhi /\ a[i + 1] = b[j + 1]
    THEN 1 + match_size(a, b, i + 1, j + 1, ahi, bhi) ELSE 0

find_longest_match(a, b, alo, ahi, blo, bhi) ==
    LET starts == (alo..(ahi - 1)) \X (blo..(bhi - 1))
        size(s) == match_size(a, b, s[1], s[2], ahi, bhi)
        Largest(sizes) == CHOOSE k \in sizes : \A n \in sizes : n <= k
        Least(numbers) == CHOOSE x \in numbers : \A n \in numbers : x <= n
    IN  Eval(Largest({ size(s) : s \in starts } \cup {0}), LAMBDA best :
        IF best = 0 THEN [ a |-> alo, b |-> blo, size |-> 0 ]
        ELSE Eval({ s \in starts : size(s) = best }, LAMBDA longest :
             Eval(Least({ s[1] : s \in longest }), LAMBDA i :
                [ a |-> i, b |-> Least({ s[2] : s \in { t \in longest : t[1] = i } }),
                  size |-> best ])))

RECURSIVE matching_blocks(_, _, _, _, _, _)
matching_blocks(a, b, alo, ahi, blo, bhi) ==
    Eval(find_longest_match(a, b, alo, ahi, blo, bhi), LAMBDA m :
        IF m.size = 0 THEN <<>>
        ELSE (IF alo < m.a /\ blo < m.b
              THEN matching_blocks(a, b, alo, m.a, blo, m.b) ELSE <<>>)
             \o <<m>>
             \o (IF m.a + m.size < ahi /\ m.b + m.size < bhi
                 THEN matching_blocks(a, b, m.a + m.size, ahi, m.b + m.size, bhi)
                 ELSE <<>>))

\* adjacent blocks are merged
RECURSIVE collapse(_)
collapse(blocks) ==
    IF Len(blocks) < 2 THEN blocks
    ELSE LET x == blocks[1]
             y == blocks[2]
         IN  IF x.a + x.size = y.a /\ x.b + x.size = y.b
             THEN collapse(<< [ x EXCEPT !.size = x.size + y.size ] >>
                           \o SubSeq(blocks, 3, Len(blocks)))
             ELSE <<x>> \o collapse(Tail(blocks))

\* get_matching_blocks(): the blocks in order, then the end marker
get_matching_blocks(a, b) ==
    collapse(matching_blocks(a, b, 0, Len(a), 0, Len(b)))
        \o << [ a |-> Len(a), b |-> Len(b), size |-> 0 ] >>

\* lines 61-71: the dict is empty or holds one block; of the block only the
\* line number is kept here
get_mismatching_block(first_match, second_match) ==
    IF first_match.a + first_match.size # second_match.a
    THEN { [ line |-> second_match.a ] }
    ELSE {}

\* lines 157-164
RECURSIVE collect_issues(_, _, _)
collect_issues(src_file, previous_match, matches) ==
    IF Len(matches) = 0 THEN <<>>
    ELSE Eval(get_mismatching_block(previous_match, Head(matches)), LAMBDA block :
            [ i \in 1..Cardinality(block) |->
                [ path |-> src_file, line |-> (CHOOSE b \in block : TRUE).line ] ]
            \o collect_issues(src_file, Head(matches), Tail(matches)))

file_issues(src_file, src_lines, fixed_lines) ==
    Eval(get_matching_blocks(src_lines, fixed_lines), LAMBDA blocks :
        collect_issues(src_file, blocks[1], Tail(blocks)))

\* lines 149-172 for one file, with the analyzer's cached html parameters:
\* the source is opened, then the file uncrustify wrote for it (there is none
\* when the tool failed), and with issues the html diff is made, which reads
\* settings.cfg_file unless both parameters are cached (lines 132-147)
get_file_issues(settings, host, cached, src_file) ==
    LET src_lines == SourceLines(src_file)
    IN  IF host.tool # "ok"
        THEN [ raised |-> "FileNotFoundError", issues |-> <<>>, cached |-> cached ]
        ELSE Eval(file_issues(src_file, src_lines, FixedLines(host.style, src_lines)),
                  LAMBDA issues :
            IF Len(issues) > 0 /\ ~cached /\ ~Truthy(settings.cfg_file)
            THEN [ raised |-> "TypeError", issues |-> <<>>, cached |-> cached ]
            ELSE [ raised |-> NoError, issues |-> issues,
                   cached |-> cached \/ Len(issues) > 0 ])

\* lines 187-189: the loop over the files, up to the first call that raises
RECURSIVE scan_files(_, _, _, _)
scan_files(settings, host, state, files) ==
    IF Len(files) = 0 THEN state
    ELSE Eval(get_file_issues(settings, host, state.cached, Head(files)), LAMBDA r :
         Eval([ raised |-> r.raised, issues |-> state.issues \o r.issues,
                read |-> Append(state.read, Head(files)), cached |-> r.cached ],
              LAMBDA next :
                IF r.raised # NoError THEN next
                ELSE scan_files(settings, host, next, Tail(files))))

\* lines 174-194.  returned: the set holding the value returned, empty when
\* the call raised; invoked: the uncrustify command was run; read: the source
\* files opened; files: the combined, filtered list of parse_files
execute(settings, host) ==
    LET nothing == [ raised |-> NoError, issues |-> <<>>, read |-> <<>>, cached |-> FALSE ]
        Done(code, exc, ran, s, files) ==
            [ returned |-> code, raised |-> exc, invoked |-> ran, read |-> s.read,
              issues |-> s.issues, cached |-> s.cached, files |-> files ]
    IN  IF ~Truthy(settings.cfg_file) /\ ~host.environ
        THEN Done({2}, NoError, FALSE, nothing, <<>>)
        ELSE Eval(parse_files(settings), LAMBDA parsed :
        IF parsed.raised # NoError THEN Done({}, parsed.raised, FALSE, nothing, parsed.files)
        ELSE IF host.tool # "ok" /\ ~IsSubclass(host.tool, "ErrorReturnCode")
        THEN Done({}, host.tool, FALSE, nothing, parsed.files)
        ELSE IF parsed.value.type = "int"
        THEN Done({}, "TypeError", TRUE, nothing, parsed.files)
        ELSE Eval(scan_files(settings, host, nothing, parsed.value.list), LAMBDA scan :
        IF scan.raised # NoError THEN Done({}, scan.raised, TRUE, scan, parsed.files)
        ELSE IF Len(scan.issues) > 0 THEN Done({1}, NoError, TRUE, scan, parsed.files)
        ELSE Done({0}, NoError, TRUE, scan, parsed.files)))

\* lines 202-210: sys.exit(main()); an exception that leaves main ends the
\* interpreter with status 1, SystemExit with the status it carries
exit_status(result) ==
    IF result.raised = NoError THEN result.returned
    ELSE IF result.raised = "SystemExit" THEN {2}
    ELSE {1}

----------------------------------------------------------------------------
(* State *)

VARIABLES
    settings,      \* the settings object: type, report_to_review
    capable,       \* the selected driver has a code review integration
    classes,       \* role -> the driver_factory of the class create_vcs built
    wrapper,       \* role -> the wrapper object of the run, or why there is none
    instances,     \* the objects instantiated so far, in order
    status_file,   \* the handle prepare_repository last obtained
    driver,        \* the backend state behind MainVcs.driver
    project_root,  \* the working directory: "present" or "absent"
    is_latest,     \* the review system: the change under test is the latest
    api_support,   \* what ApiSupport.add_file_diff received
    calls,         \* the collaborator calls of the last operation, in order
    outcome,       \* the last operation: name, exception, result, injected fault
    ops,           \* lifecycle calls made so far
    worktree,      \* the paths that differ from the reference revision
    analyzer,      \* the UncrustifyAnalyzer of the run: settings, attributes, result
    host,          \* what the analyzer runs on: environment, uncrustify, its style
    compared       \* a source file and its fixed file given to get_file_issues

vars == << settings, capable, classes, wrapper, instances, status_file, driver,
           project_root, is_latest, api_support, calls, outcome, ops, worktree,
           analyzer, host, compared >>

lifecycle == << status_file, driver, project_root, api_support, calls, outcome, ops,
                worktree >>

NoWrapper == [ state |-> "absent", raised |-> NoError, message |-> <<>>,
               driver |-> 0, code_review |-> FALSE ]
NoOutcome == [ op |-> "", raised |-> NoError, fault |-> "none", injected |-> NoError,
               answer |-> TRUE, diff |-> <<>>,
               \* what the collaborators handed to the call
               produced |-> <<>>, status |-> <<>>, listing |-> <<>> ]
NewDriver == [ prepare_calls |-> 0, revert_calls |-> 0, finalize_calls |-> 0,
               releases |-> 0, released |-> FALSE, prepared |-> FALSE ]

\* the arguments universum_uncrustify is run with (lines 82-103)
FileNameArgs ==
    { <<>>, << <<"a.c">> >>, << <<"src">> >>, << <<"gone">> >>, << <<"a.c">>, <<"src">> >> }
FileListArgs == { <<>>, << <<"list.txt">> >>, << <<"nolist.txt">> >> }
PatternForms == { <<>>, <<".*\\.c$">>, <<"src/.*">>, <<".*/src/.*", ".*\\.c$">> }
AnalyzerSettings ==
    [ cfg_file : {NONE, "uncrustify.cfg"}, file_names : FileNameArgs,
      file_lists : FileListArgs, pattern_form : PatternForms ]

\* UNCRUSTIFY_CONFIG is set; how the uncrustify command ends; the style its
\* configuration asks for
Hosts ==
    [ environ : BOOLEAN, tool : {"ok", "ErrorReturnCode", "CommandNotFound"},
      style : {"lenient", "strict"} ]

\* code_width and input_tab_size as the configuration file gives them
CfgValues == [ code_width |-> "120", input_tab_size |-> "4" ]

NoResult ==
    [ returned |-> {}, raised |-> NoError, invoked |-> FALSE, read |-> <<>>,
      issues |-> <<>>, cached |-> FALSE, files |-> <<>> ]
NoAnalyzer ==
    [ phase |-> "none",
      settings |-> [ cfg_file |-> NONE, file_names |-> <<>>, file_lists |-> <<>>,
                     pattern_form |-> <<>> ],
      wrapcolumn |-> ABSENT, tabsize |-> ABSENT, result |-> NoResult, status |-> {} ]
NoHost == [ environ |-> FALSE, tool |-> "ok", style |-> "lenient" ]
\* the lines a file is made of, and the files of up to MaxLines lines
LineTexts == {"a;", "b;", "c;"}
TextFiles == UNION { [ 1..n -> LineTexts ] : n \in 0..MaxLines }

NoComparison ==
    [ src_lines |-> <<>>, fixed_lines |-> <<>>, issues |-> <<>>, html |-> FALSE,
      done |-> FALSE ]

NoAnalysis == analyzer = NoAnalyzer /\ host = NoHost /\ compared = NoComparison

ImportOrder == <<"poll", "submit", "main">>
Created == { r \in Roles : classes[r] # NoTable }

InitLifecycle ==
    /\ status_file = NoFile
    /\ driver = NewDriver
    /\ api_support = [ count |-> 0, last |-> NoPayload ]
    /\ calls = <<>>
    /\ outcome = NoOutcome
    /\ ops = 0
    /\ worktree = <<>>

\* before the module is imported
Init ==
    /\ settings \in [ type : TypeValues, report_to_review : BOOLEAN ]
    /\ capable \in BOOLEAN
    /\ classes = [ r \in Roles |-> NoTable ]
    /\ wrapper = [ r \in Roles |-> NoWrapper ]
    /\ instances = <<>>
    /\ project_root \in {"present", "absent"}
    /\ is_latest \in BOOLEAN
    /\ InitLifecycle
    /\ NoAnalysis

----------------------------------------------------------------------------
(* Import and construction *)

\* lines 111, 112, 115: the three calls of create_vcs, in order
CreateVcs ==
    /\ Cardinality(Created) < Len(ImportOrder)
    /\ LET role == ImportOrder[Cardinality(Created) + 1]
       IN  classes' = [ classes EXCEPT ![role] = driver_factory(ClassTypeOf(role)) ]
    /\ UNCHANGED << settings, capable, wrapper, instances, project_root, is_latest,
                    analyzer, host, compared >>
    /\ UNCHANGED lifecycle

Owned(role, made) == [ i \in 1..Len(made) |-> [ cls |-> made[i], owner |-> role ] ]

Constructed(role, result) ==
    [ state |-> IF result.raised = NoError THEN "constructed" ELSE "failed",
      raised |-> result.raised,
      message |-> result.message,
      driver |-> IF result.raised = NoError THEN Len(instances) + 1 ELSE 0,
      code_review |-> FALSE ]

Construct(role, result) ==
    /\ Created = Roles
    /\ wrapper[role].state = "absent"
    /\ wrapper' = [ wrapper EXCEPT ![role] = Constructed(role, result) ]
    /\ instances' = instances \o Owned(role, result.instantiated)
    /\ UNCHANGED << settings, capable, classes, project_root, is_latest, analyzer, host,
                    compared >>
    /\ UNCHANGED lifecycle

NewPollVcs == Construct("poll", Vcs__init__(classes["poll"], settings))

NewSubmitVcs == Construct("submit", Vcs__init__(classes["submit"], settings))

NewMainVcs ==
    LET result == MainVcs__init__(classes["main"], settings, capable)
    IN  /\ Created = Roles
        /\ wrapper["main"].state = "absent"
        /\ wrapper' = [ wrapper EXCEPT ![("main")] =
                          [ Constructed("main", result) EXCEPT !.code_review = result.code_review ] ]
        /\ instances' = instances \o Owned("main", result.instantiated)
        /\ UNCHANGED << settings, capable, classes, project_root, is_latest, analyzer, host,
                    compared >>
        /\ UNCHANGED lifecycle

Next == CreateVcs \/ NewPollVcs \/ NewSubmitVcs \/ NewMainVcs

Spec == Init /\ [][Next]_vars

----------------------------------------------------------------------------
(* The MainVcs lifecycle *)

\* a MainVcs as lines 100 and 128-132 leave it: self.driver an instance of the
\* class the main table gives for settings.type, self.artifacts,
\* self.api_support, and self.code_review when report_to_review is set
InitMain ==
    /\ settings \in [ type : { vcs_types[i] : i \in 1..Len(vcs_types) },
                      report_to_review : BOOLEAN ]
    /\ capable \in BOOLEAN
    /\ settings.report_to_review => capable
    /\ classes = [ r \in Roles |-> driver_factory(ClassTypeOf(r)) ]
    /\ instances = Owned("main", << classes["main"][settings.type].cls,
                                    "artifact_collector.ArtifactCollector", "ApiSupport" >>)
    /\ wrapper = [ r \in Roles |->
                     IF r = "main"
                     THEN [ state |-> "constructed", raised |-> NoError, message |-> <<>>,
                            driver |-> 1, code_review |-> settings.report_to_review ]
                     ELSE NoWrapper ]
    /\ project_root \in {"present", "absent"}
    /\ is_latest \in BOOLEAN
    /\ InitLifecycle
    /\ NoAnalysis

Callable == wrapper["main"].state = "constructed" /\ ops < MaxOps

Count(log, name) == Cardinality({ i \in 1..Len(log) : log[i] = name })

fixed == << settings, capable, classes, wrapper, instances, is_latest, analyzer, host,
           compared >>

IsLatestReviewVersion ==
    /\ Callable
    /\ LET r == is_latest_review_version(settings.report_to_review, is_latest)
       IN  /\ outcome' = [ NoOutcome EXCEPT !.op = "is_latest_review_version",
                                            !.raised = r.raised, !.answer = r.value ]
           /\ calls' = r.calls
    /\ ops' = ops + 1
    /\ UNCHANGED << status_file, driver, project_root, api_support, worktree >>
    /\ UNCHANGED fixed

PrepareRepository ==
    /\ Callable
    /\ \E run \in PrepareRuns :
           LET fault == run.fault
               exc == run.exc
               r == prepare_repository(fault, exc, run.status, run.listing, run.file_diff)
           IN  /\ outcome' = [ NoOutcome EXCEPT !.op = "prepare_repository",
                                                !.raised = r.raised,
                                                !.fault = fault, !.injected = exc,
                                                !.produced = IF DiffRead(fault)
                                                             THEN run.file_diff ELSE <<>>,
                                                !.status = run.status,
                                                !.listing = run.listing ]
               /\ calls' = r.calls
               /\ status_file' = r.file
               /\ driver' = [ driver EXCEPT !.prepare_calls =
                                @ + Count(r.calls, "driver.prepare_repository"),
                                            !.prepared = @ \/ r.prepared ]
               \* the driver materializes the revision with the change under
               \* test, which is what calculate_file_diff then reports
               /\ worktree' \in IF ~r.prepared THEN {worktree}
                                ELSE IF DiffRead(fault) THEN {run.file_diff}
                                ELSE FileDiffs
               /\ project_root' = IF r.prepared THEN "present" ELSE project_root
               /\ api_support' = IF r.payload = NoPayload THEN api_support
                                 ELSE [ count |-> api_support.count + 1, last |-> r.payload ]
    /\ ops' = ops + 1
    /\ UNCHANGED fixed

CleanSourcesSilently ==
    /\ Callable
    /\ \E err \in RmtreeErrors :
         LET r == clean_sources_silently(project_root, err)
         IN  /\ outcome' = [ NoOutcome EXCEPT !.op = "clean_sources_silently",
                                              !.raised = r.raised,
                                              !.injected = rmtree(project_root, err).raised ]
             /\ calls' = r.calls
             /\ project_root' = r.root
             /\ worktree' = IF r.root = "absent" THEN <<>> ELSE worktree
    /\ ops' = ops + 1
    /\ UNCHANGED << status_file, driver, api_support >>
    /\ UNCHANGED fixed

RevertRepository ==
    /\ Callable
    /\ \E fault \in BOOLEAN :
         \E exc \in (IF fault THEN BackendErrors ELSE {NoError}) :
           \* the driver reverts the local changes and returns what it reverted
           LET file_diff == worktree
               r == revert_repository(fault, exc, file_diff)
           IN  /\ outcome' = [ NoOutcome EXCEPT !.op = "revert_repository",
                                                !.raised = r.raised,
                                                !.fault = IF fault THEN "driver.copy_cl_files_and_revert"
                                                          ELSE "none",
                                                !.injected = exc, !.diff = r.value,
                                                !.produced = IF fault THEN <<>> ELSE file_diff ]
               /\ calls' = r.calls
               /\ driver' = [ driver EXCEPT !.revert_calls = @ + Len(r.calls) ]
               /\ worktree' = IF r.reverted THEN <<>> ELSE worktree
    /\ ops' = ops + 1
    /\ UNCHANGED << status_file, project_root, api_support >>
    /\ UNCHANGED fixed

Finalize ==
    /\ Callable
    /\ LET r == finalize(driver)
       IN  /\ outcome' = [ NoOutcome EXCEPT !.op = "finalize", !.raised = r.raised ]
           /\ calls' = r.calls
           /\ driver' = r.driver
    /\ ops' = ops + 1
    /\ UNCHANGED << status_file, project_root, api_support, worktree >>
    /\ UNCHANGED fixed

\* something outside the build changes a file of the working directory
ModifyExternally ==
    /\ wrapper["main"].state = "constructed"
    /\ project_root = "present"
    /\ \A i \in 1..Len(worktree) : worktree[i] # "scratch.txt"
    /\ worktree' = Append(worktree, "scratch.txt")
    /\ UNCHANGED << status_file, driver, project_root, api_support, calls, outcome, ops >>
    /\ UNCHANGED fixed

NextMain ==
    \/ IsLatestReviewVersion
    \/ PrepareRepository
    \/ CleanSourcesSilently
    \/ RevertRepository
    \/ Finalize
    \/ ModifyExternally

SpecMain == InitMain /\ [][NextMain]_vars

----------------------------------------------------------------------------
(* The uncrustify analyzer: universum_uncrustify run once *)

\* the Python variables the run keeps out of the module
vcs == << settings, capable, classes, wrapper, instances, status_file, driver,
          project_root, is_latest, api_support, calls, outcome, ops, worktree >>

VcsUnused ==
    /\ settings = [ type |-> ABSENT, report_to_review |-> FALSE ]
    /\ capable = FALSE
    /\ classes = [ r \in Roles |-> NoTable ]
    /\ wrapper = [ r \in Roles |-> NoWrapper ]
    /\ instances = <<>>
    /\ project_root = "present"
    /\ is_latest = TRUE
    /\ InitLifecycle

InitUncrustify ==
    /\ settings = [ type |-> ABSENT, report_to_review |-> FALSE ]
    /\ capable = FALSE
    /\ classes = [ r \in Roles |-> NoTable ]
    /\ wrapper = [ r \in Roles |-> NoWrapper ]
    /\ instances = <<>>
    /\ project_root = "present"
    /\ is_latest = TRUE
    /\ InitLifecycle
    /\ analyzer \in { [ NoAnalyzer EXCEPT !.phase = "parsed", !.settings = s ] :
                        s \in AnalyzerSettings }
    /\ host \in Hosts
    /\ compared = NoComparison

\* lines 106-109
NewUncrustifyAnalyzer ==
    /\ analyzer.phase = "parsed"
    /\ analyzer' = [ analyzer EXCEPT !.phase = "constructed",
                                     !.wrapcolumn = NONE, !.tabsize = NONE ]
    /\ UNCHANGED << host, compared >>
    /\ UNCHANGED vcs

\* lines 174-194
Execute ==
    /\ analyzer.phase = "constructed"
    /\ LET result == execute(analyzer.settings, host)
       IN  analyzer' =
             [ analyzer EXCEPT
                 !.phase = "executed",
                 !.result = result,
                 !.wrapcolumn = IF result.cached THEN CfgValues.code_width ELSE @,
                 !.tabsize = IF result.cached THEN CfgValues.input_tab_size ELSE @ ]
    /\ UNCHANGED << host, compared >>
    /\ UNCHANGED vcs

\* lines 202-210
SysExit ==
    /\ analyzer.phase = "executed"
    /\ analyzer' = [ analyzer EXCEPT !.phase = "exited",
                                     !.status = exit_status(analyzer.result) ]
    /\ UNCHANGED << host, compared >>
    /\ UNCHANGED vcs

NextUncrustify == NewUncrustifyAnalyzer \/ Execute \/ SysExit

SpecUncrustify == InitUncrustify /\ [][NextUncrustify]_vars

----------------------------------------------------------------------------
(* get_file_issues applied to one source file and the file uncrustify wrote *)
(* for it                                                                   *)

InitIssues ==
    /\ VcsUnused
    /\ analyzer = NoAnalyzer
    /\ host = NoHost
    /\ compared \in { [ NoComparison EXCEPT !.src_lines = a, !.fixed_lines = b ] :
                        a \in TextFiles, b \in TextFiles }

\* lines 149-172: the issues of the file, and the html diff made when there
\* are any
GetFileIssues ==
    /\ ~compared.done
    /\ LET file_issues_found ==
               file_issues(<<"a.c">>, compared.src_lines, compared.fixed_lines)
       IN  compared' = [ compared EXCEPT !.issues = file_issues_found,
                                         !.html = Len(file_issues_found) > 0,
                                         !.done = TRUE ]
    /\ UNCHANGED << analyzer, host >>
    /\ UNCHANGED vcs

NextIssues == GetFileIssues

SpecIssues == InitIssues /\ [][NextIssues]_vars

----------------------------------------------------------------------------
(* Properties *)

SupportedTypes == { vcs_types[i] : i \in 1..Len(vcs_types) }
UnsetTypes == {ABSENT, NONE, ""}
OwnedBy(role) == { i \in 1..Len(instances) : instances[i].owner = role }
DriversOf(role) ==
    { i \in OwnedBy(role) :
        \E t \in SupportedTypes : instances[i].cls = driver_factory_class(ClassTypeOf(role))[t] }
Attempted(role) == wrapper[role].state # "absent"
StepOf(op) == outcome'.op = op /\ ops' = ops + 1

\* C1: whenever prepare_repository has returned or raised, the handle it
\* obtained from create_text_file is closed.
C1_StatusFileClosedOnEveryExit ==
    (outcome.op = "prepare_repository" /\ status_file.name # "") => status_file.closed

\* C2: when driver.prepare_repository() raises, prepare_repository raises the
\* same error, writes nothing to the status file afterwards, and calls neither
\* driver.calculate_file_diff nor api_support.add_file_diff.
C2_PrepareFailureAborts ==
    [][ (StepOf("prepare_repository") /\ outcome'.fault = "driver.prepare_repository")
        => /\ outcome'.raised # NoError
           /\ outcome'.raised = outcome'.injected
           /\ calls' = <<"artifacts.create_text_file", "driver.prepare_repository">>
           /\ status_file'.content = <<>>
           /\ api_support' = api_support ]_vars

C2_Witness ==
    /\ outcome.op = "prepare_repository"
    /\ outcome.fault = "driver.prepare_repository"
    /\ outcome.raised = "DriverError"

\* C3: for every role, a settings.type outside none, p4, git, gerrit, github
\* makes construction fail with IncorrectParameterError listing the valid
\* type names, with nothing instantiated.
C3_UnknownTypeIsIncorrectParameter ==
    \A role \in Roles :
        (Attempted(role) /\ settings.type \notin SupportedTypes)
        => /\ wrapper[role].state = "failed"
           /\ wrapper[role].raised = "IncorrectParameterError"
           /\ wrapper[role].message = Join(vcs_types, ", ")
           /\ OwnedBy(role) = {}

\* C4: for every role, an unset settings.type (no attribute, None or empty)
\* makes construction fail with IncorrectParameterError whose message lists
\* none, p4, git, gerrit, github and nothing else, with nothing instantiated.
C4_UnsetTypeIsIncorrectParameter ==
    \A role \in Roles :
        (Attempted(role) /\ settings.type \in UnsetTypes)
        => /\ wrapper[role].state = "failed"
           /\ wrapper[role].raised = "IncorrectParameterError"
           /\ wrapper[role].message =
                <<"none", ", ", "p4", ", ", "git", ", ", "gerrit", ", ", "github">>
           /\ OwnedBy(role) = {}

C4_Witness ==
    /\ settings.type = ""
    /\ \A role \in Roles : wrapper[role].raised = "IncorrectParameterError"

C6_ReviewCapabilityError ==
    (Attempted("main") /\ settings.type \in SupportedTypes
        /\ settings.report_to_review /\ ~capable)
    => /\ wrapper["main"].state = "failed"
       /\ wrapper["main"].raised = "NotSupported"

\* C7: with report_to_review off, is_latest_review_version() returns True
\* whatever the lifecycle and the review system are at, and calls nothing.
C7_LatestWithoutReview ==
    (outcome.op = "is_latest_review_version" /\ ~settings.report_to_review)
    => /\ outcome.answer = TRUE
       /\ outcome.raised = NoError
       /\ calls = <<>>

C7_Witness ==
    /\ outcome.op = "is_latest_review_version"
    /\ ~settings.report_to_review
    /\ ~is_latest
    /\ driver.finalize_calls > 0

\* C8: a role constructed with a supported type has a wrapper owning exactly
\* one driver instance, of the class the role's table gives for the type.
C8_ExactlyOneDriverPerWrapper ==
    \A role \in Roles :
        (Attempted(role) /\ settings.type \in SupportedTypes
            /\ (role = "main" => (~settings.report_to_review \/ capable)))
        => /\ wrapper[role].state = "constructed"
           /\ Cardinality(DriversOf(role)) = 1
           /\ \A i \in DriversOf(role) :
                /\ wrapper[role].driver = i
                /\ instances[i].cls =
                     driver_factory_class(ClassTypeOf(role))[settings.type]

\* C9: in the poll role the table gives gerrit the driver class it gives git.
C9_PollGerritIsGit ==
    classes["poll"] # NoTable => classes["poll"]["gerrit"] = classes["poll"]["git"]

C9_Witness ==
    /\ classes["poll"] # NoTable
    /\ settings.type = "gerrit"
    /\ Attempted("poll")

\* C10: clean_sources_silently() raises nothing, whatever the removal of the
\* project root does, and changes only the working directory.
C10_CleanNeverRaises ==
    [][ StepOf("clean_sources_silently")
        => /\ outcome'.raised = NoError
           /\ UNCHANGED << status_file, driver, api_support, wrapper, instances,
                           settings, classes, is_latest >> ]_vars

C10_Witness ==
    /\ outcome.op = "clean_sources_silently"
    /\ outcome.injected = "PermissionError"
    /\ outcome.raised = NoError
    /\ project_root = "present"

\* the lines of a text: the pieces between line breaks
RECURSIVE SplitLines(_, _)
SplitLines(text, line) ==
    IF Len(text) = 0 THEN (IF Len(line) = 0 THEN <<>> ELSE <<line>>)
    ELSE IF Head(text) = LF THEN <<line>> \o SplitLines(Tail(text), <<>>)
    ELSE SplitLines(Tail(text), Append(line, Head(text)))
Lines(text) == SplitLines(text, <<>>)
BlankLine == << <<>> >>

DriverOperations ==
    {"driver.prepare_repository", "driver.get_repo_status", "driver.calculate_file_diff",
     "driver.copy_cl_files_and_revert"}
DriverCalls(log) == Cardinality({ i \in 1..Len(log) : log[i] \in DriverOperations })
Failed == outcome.op \in {"prepare_repository", "revert_repository"} /\ outcome.raised # NoError

\* C11: revert_repository() calls driver.copy_cl_files_and_revert() once and
\* returns the diff that call produced; when the call fails, its error is the
\* one revert_repository raises.
C11_RevertReturnsDriverDiff ==
    [][ StepOf("revert_repository")
        => /\ calls' = <<"driver.copy_cl_files_and_revert">>
           /\ driver'.revert_calls = driver.revert_calls + 1
           /\ IF outcome'.fault = "none"
              THEN outcome'.raised = NoError /\ outcome'.diff = worktree
              ELSE outcome'.raised # NoError /\ outcome'.raised = outcome'.injected ]_vars

C11_Witness ==
    /\ outcome.op = "revert_repository"
    /\ outcome.raised = NoError
    /\ outcome.diff = <<"readme.txt">>

\* C12: after prepare_repository or revert_repository has failed, finalize()
\* can be called and calls driver.finalize().
C12_FinalizeAfterFailure ==
    /\ [][ (Failed /\ StepOf("finalize"))
           => /\ calls' = <<"driver.finalize">>
              /\ outcome'.raised = NoError
              /\ driver'.finalize_calls = driver.finalize_calls + 1 ]_vars
    /\ []((Failed /\ ops < MaxOps) => ENABLED Finalize)

C12_Witness ==
    /\ outcome.op = "finalize"
    /\ calls = <<"driver.finalize">>
    /\ driver.prepare_calls = 1
    /\ ~driver.prepared
    /\ driver.finalize_calls = 1

\* C13: after a successful prepare_repository the status file holds the
\* status text, a blank line, the line "File list:", a blank line and the
\* listing, whatever the status text ends with.
C13_StatusFileLayout ==
    (outcome.op = "prepare_repository" /\ outcome.raised = NoError)
    => Lines(status_file.content) =
         Lines(outcome.status) \o BlankLine \o << <<"File list:">> >> \o BlankLine
            \o Lines(outcome.listing)

C15_PrepareOrder ==
    [][ (StepOf("prepare_repository") /\ outcome'.raised = NoError)
        => /\ calls' = << "artifacts.create_text_file", "driver.prepare_repository",
                          "driver.get_repo_status", "status_file.write",
                          "status_file.write", "sh.ls", "status_file.write",
                          "status_file.close", "driver.calculate_file_diff",
                          "api_support.add_file_diff" >>
           /\ status_file'.closed
           /\ driver'.prepare_calls = driver.prepare_calls + 1
           /\ api_support'.count = api_support.count + 1
           /\ api_support'.last = json_dumps(outcome'.produced) ]_vars

C15_Witness ==
    /\ outcome.op = "prepare_repository"
    /\ outcome.raised = NoError
    /\ outcome.produced = <<"readme.txt">>
    /\ api_support = [ count |-> 1, last |-> json_dumps(<<"readme.txt">>) ]

\* C16 as stated: in every sequence of calls driver.prepare_repository is
\* invoked at most once, driver.copy_cl_files_and_revert only after a
\* successful prepare, and no driver operation after finalize.
C16_LinearLifecycle ==
    /\ driver.prepare_calls <= 1
    /\ outcome.op = "revert_repository" => driver.prepared
    /\ (driver.finalize_calls > 0 /\ outcome.op \in {"prepare_repository", "revert_repository"})
       => DriverCalls(calls) = 0

\* C16 as amended: the wrapper keeps no lifecycle state; every call is
\* forwarded, whatever was called before: a prepare_repository() that got its
\* status file invokes driver.prepare_repository once, a revert_repository()
\* invokes driver.copy_cl_files_and_revert once, a finalize() invokes
\* driver.finalize once, and no call invokes another method's operation.
C16_EveryCallForwarded ==
    [][ ops' = ops + 1
        => /\ driver'.prepare_calls - driver.prepare_calls =
                IF outcome'.op = "prepare_repository"
                   /\ outcome'.fault # "artifacts.create_text_file" THEN 1 ELSE 0
           /\ driver'.revert_calls - driver.revert_calls =
                IF outcome'.op = "revert_repository" THEN 1 ELSE 0
           /\ driver'.finalize_calls - driver.finalize_calls =
                IF outcome'.op = "finalize" THEN 1 ELSE 0 ]_vars

C16_Witness ==
    /\ driver.prepare_calls = 2
    /\ outcome.op = "prepare_repository"

\* C17: for every supported type the poll, submit and main tables name three
\* pairwise different driver classes, and poll, submit and main wrappers
\* constructed in one run with one type hold three different driver instances.
C17_NoSharedDriver ==
    /\ \A r1 \in Created : \A r2 \in Created \ {r1} : \A t \in SupportedTypes :
           classes[r1][t].cls # classes[r2][t].cls
    /\ ((\A role \in Roles : Attempted(role))
            /\ settings.type \in SupportedTypes
            /\ (~settings.report_to_review \/ capable))
       => /\ \A role \in Roles :
                /\ wrapper[role].state = "constructed"
                /\ wrapper[role].driver \in DriversOf(role)
          /\ \A r1 \in Roles : \A r2 \in Roles \ {r1} :
                wrapper[r1].driver # wrapper[r2].driver

\* C18: with report_to_review set and a driver that supports review, the
\* constructor of MainVcs has called driver.code_review() and kept the handle;
\* with report_to_review off it has not called it.
C18_ReviewHandleObtainedOnce ==
    (Attempted("main") /\ settings.type \in SupportedTypes)
    => /\ (settings.report_to_review /\ capable)
            => (wrapper["main"].state = "constructed" /\ wrapper["main"].code_review)
       /\ ~settings.report_to_review => ~wrapper["main"].code_review

\* C19: every role's table has exactly the keys none, p4, git, gerrit, github
\* of vcs_types, and construction with one of them does not fail at the
\* lookup of the driver.
C19_ValidTypeResolves ==
    /\ \A role \in Created : DOMAIN classes[role] = SupportedTypes
    /\ \A role \in Roles :
          (Attempted(role) /\ settings.type \in SupportedTypes)
          => wrapper[role].raised \in {NoError, "NotSupported"}

Executed == analyzer.phase \in {"executed", "exited"}
NoConfig == ~Truthy(analyzer.settings.cfg_file) /\ ~host.environ
\* parse_files came to its end with an empty list
EmptyFileList ==
    Eval(parse_files(analyzer.settings), LAMBDA parsed :
        parsed.raised = NoError /\ Len(parsed.files) = 0)

\* C20: execute() ends with an exit code among 0, 1, 2 (a sys.exit(2) inside
\* it counted as 2): 2 without a configuration or with an empty file list,
\* then without running uncrustify or opening a source file; otherwise 1 when
\* an issue was found and 0 when none was.
C20_ExitCode ==
    Executed
    => LET result == analyzer.result
           code == IF result.raised = "SystemExit" THEN {2} ELSE result.returned
       IN  /\ result.raised \in {NoError, "SystemExit"}
           /\ code \in {{0}, {1}, {2}}
           /\ (NoConfig \/ EmptyFileList)
                => (code = {2} /\ ~result.invoked /\ result.read = <<>>)
           /\ (~NoConfig /\ ~EmptyFileList /\ result.raised = NoError)
                => code = (IF Len(result.issues) > 0 THEN {1} ELSE {0})

\* the pairs of consecutive matching blocks of the two files, by position of
\* the first, that have unmatched lines between them in either file
Gaps(blocks) ==
    { i \in 1..(Len(blocks) - 1) :
        \/ blocks[i].a + blocks[i].size # blocks[i + 1].a
        \/ blocks[i].b + blocks[i].size # blocks[i + 1].b }

\* C21: get_file_issues finds an issue when the source and the fixed file
\* differ and none when they are the same: one issue for every pair of
\* consecutive matching blocks with unmatched lines between them, in the
\* source, in the fixed file or in both.
C21_IssuePerDifference ==
    compared.done
    => Eval(get_matching_blocks(compared.src_lines, compared.fixed_lines), LAMBDA blocks :
        /\ compared.src_lines # compared.fixed_lines => Len(compared.issues) >= 1
        /\ compared.src_lines = compared.fixed_lines => Len(compared.issues) = 0
        /\ Len(compared.issues) = Cardinality(Gaps(blocks)))

====
